---------------------------- MODULE Spec2Model ----------------------------
(***************************************************************************)
(* Model of the call-ended webhook (api/webhook/call-ended.js): the        *)
(* transcript classifier, the field extraction, the pre-dispatch checks    *)
(* and the Twilio dispatch, as a state machine over webhook deliveries.    *)
(*                                                                         *)
(* JavaScript strings are TLA+ strings (sequences of characters): Len,     *)
(* SubSeq and \o are the string operations the code's includes, replace,   *)
(* match and toLowerCase are built from.                                   *)
(***************************************************************************)
EXTENDS Integers, Sequences, FiniteSets, TLC

(***************************************************************************)
(* String primitives                                                       *)
(***************************************************************************)

CharAt(s, i) == SubSeq(s, i, i)

UpperAlphabet == "ABCDEFGHIJKLMNOPQRSTUVWXYZ"
LowerAlphabet == "abcdefghijklmnopqrstuvwxyz"

LowerChar(c) ==
    IF \E i \in 1..Len(UpperAlphabet) : CharAt(UpperAlphabet, i) = c
    THEN LET i == CHOOSE j \in 1..Len(UpperAlphabet) : CharAt(UpperAlphabet, j) = c
         IN  CharAt(LowerAlphabet, i)
    ELSE c

\* The strings are mapped by halves, which keeps the recursion shallow.
RECURSIVE toLowerCase(_)
toLowerCase(s) ==
    IF Len(s) = 0 THEN ""
    ELSE IF Len(s) = 1 THEN LowerChar(s)
    ELSE toLowerCase(SubSeq(s, 1, Len(s) \div 2))
         \o toLowerCase(SubSeq(s, (Len(s) \div 2) + 1, Len(s)))

\* String.prototype.includes
includes(s, k) ==
    \E i \in 1..(Len(s) - Len(k) + 1) : SubSeq(s, i, i + Len(k) - 1) = k

\* String.prototype.replace(/[chars]/g, ''): drop every character of the class
RECURSIVE removeChars(_, _)
removeChars(s, class) ==
    IF Len(s) = 0 THEN ""
    ELSE IF Len(s) = 1 THEN (IF s \in class THEN "" ELSE s)
    ELSE removeChars(SubSeq(s, 1, Len(s) \div 2), class)
         \o removeChars(SubSeq(s, (Len(s) \div 2) + 1, Len(s)), class)

Quoted(s) == "\"" \o s \o "\""

(***************************************************************************)
(* JavaScript values.  A request body is a parsed JSON value (or undefined *)
(* when the request carries none); the tag t is the value's kind and v its *)
(* content: a string, a natural number, a boolean, the sequence of an      *)
(* array's items, or the sequence of an object's <<key, value>> entries in *)
(* insertion order.                                                        *)
(***************************************************************************)

Str(s)  == [t |-> "string", v |-> s]
Num(n)  == [t |-> "number", v |-> n]
Bool(b) == [t |-> "boolean", v |-> b]
Arr(xs) == [t |-> "array", v |-> xs]
Obj(es) == [t |-> "object", v |-> es]
Null == [t |-> "null"]
Undefined == [t |-> "undefined"]

\* typeof x
typeof(x) == IF x.t \in {"object", "array", "null"} THEN "object" ELSE x.t

\* ToBoolean(x), as in !x, x || y and if (x)
truthy(x) ==
    CASE x.t = "string"  -> x.v # ""
      [] x.t = "number"  -> x.v # 0
      [] x.t = "boolean" -> x.v
      [] x.t \in {"null", "undefined"} -> FALSE
      [] OTHER -> TRUE

\* x || y
Or(x, y) == IF truthy(x) THEN x ELSE y

\* x.key of a value that is not null or undefined (none of the keys the
\* handler reads is a property of a string, a number or an array)
Get(x, key) ==
    IF x.t = "object" /\ \E i \in 1..Len(x.v) : x.v[i][1] = key
    THEN x.v[CHOOSE i \in 1..Len(x.v) : x.v[i][1] = key][2]
    ELSE Undefined

\* x?.key
OptGet(x, key) == IF x.t \in {"null", "undefined"} THEN Undefined ELSE Get(x, key)

Digits == {"0", "1", "2", "3", "4", "5", "6", "7", "8", "9"}
DigitString == "0123456789"

\* Number.prototype.toString of a natural number
RECURSIVE IntToStr(_)
IntToStr(n) ==
    IF n < 10 THEN CharAt(DigitString, n + 1)
    ELSE IntToStr(n \div 10) \o CharAt(DigitString, (n % 10) + 1)

\* Object.entries(x) of an object or an array
entries(x) ==
    IF x.t = "array"
    THEN [i \in 1..Len(x.v) |-> <<IntToStr(i - 1), x.v[i]>>]
    ELSE x.v

\* Object.keys(x): the keys of an object, the indices of an array or a
\* string, nothing for a number or a boolean
keys(x) ==
    CASE x.t = "object" -> [i \in 1..Len(x.v) |-> x.v[i][1]]
      [] x.t = "array"  -> [i \in 1..Len(x.v) |-> IntToStr(i - 1)]
      [] x.t = "string" -> [i \in 1..Len(x.v) |-> IntToStr(i - 1)]
      [] OTHER -> << >>

RECURSIVE joinStrings(_, _)
joinStrings(strs, sep) ==
    IF Len(strs) = 0 THEN ""
    ELSE IF Len(strs) = 1 THEN strs[1]
    ELSE strs[1] \o sep \o joinStrings(Tail(strs), sep)

\* String(x), also the conversion of `${x}`; Array.prototype.join turns
\* null and undefined items into the empty string
RECURSIVE JsString(_)
JsString(x) ==
    CASE x.t = "string"    -> x.v
      [] x.t = "number"    -> IntToStr(x.v)
      [] x.t = "boolean"   -> IF x.v THEN "true" ELSE "false"
      [] x.t = "null"      -> "null"
      [] x.t = "undefined" -> "undefined"
      [] x.t = "object"    -> "[object Object]"
      [] x.t = "array"     ->
            joinStrings([i \in 1..Len(x.v) |->
                            IF x.v[i].t \in {"null", "undefined"} THEN ""
                            ELSE JsString(x.v[i])], ",")

\* JSON string escaping of the characters the payloads can hold
RECURSIVE escapeJson(_)
escapeJson(s) ==
    IF Len(s) = 0 THEN ""
    ELSE IF Len(s) = 1
    THEN CASE s = "\"" -> "\\\""
           [] s = "\\" -> "\\\\"
           [] s = "\n" -> "\\n"
           [] s = "\t" -> "\\t"
           [] OTHER -> s
    ELSE escapeJson(SubSeq(s, 1, Len(s) \div 2))
         \o escapeJson(SubSeq(s, (Len(s) \div 2) + 1, Len(s)))

\* JSON.stringify(x) without indentation
RECURSIVE stringify(_)
stringify(x) ==
    CASE x.t = "string"  -> Quoted(escapeJson(x.v))
      [] x.t = "number"  -> IntToStr(x.v)
      [] x.t = "boolean" -> IF x.v THEN "true" ELSE "false"
      [] x.t = "null"    -> "null"
      [] x.t = "array"   ->
            "[" \o joinStrings([i \in 1..Len(x.v) |-> stringify(x.v[i])], ",") \o "]"
      [] x.t = "object"  ->
            "{" \o joinStrings([i \in 1..Len(x.v) |->
                                  Quoted(escapeJson(x.v[i][1])) \o ":"
                                  \o stringify(x.v[i][2])], ",") \o "}"

(***************************************************************************)
(* SMS templates and classification keywords                               *)
(***************************************************************************)

\* The registry's keys; the literal texts are SMS_TEMPLATES below.
TemplateIds ==
    { "REWARDS_SMS", "TRANSACTION_SMS", "COMPLAINT_SMS",
      "OUTBOUND_CONFIRMATION_SMS", "REWARDS_TNC_SMS",
      "TRANSACTION_REFERENCE_SMS", "REDEMPTION_SMS", "CALL_SUMMARY_SMS" }

SMS_TEMPLATES ==
    [ REWARDS_SMS |-> "Mashreq Bank: This confirms your rewards inquiry. Your current balance and transaction details were shared during the call. For questions, call us anytime. Thank you for banking with us.",
      TRANSACTION_SMS |-> "Mashreq Bank: Transaction Confirmation\nYour funds transfer inquiry has been addressed. \nStatus and reference details were shared during your call.\nIf the beneficiary has not received funds within the stated timeline, please contact us.\nThank you for banking with Mashreq.",
      COMPLAINT_SMS |-> "Mashreq Bank: This confirms the complaint status update shared during your call. Your case is being handled as per our service commitment. For further assistance, please call us. Thank you.",
      OUTBOUND_CONFIRMATION_SMS |-> "Mashreq Bank: This confirms the update shared during our call today. If you have any questions, please contact us. Thank you for being a valued customer.",
      REWARDS_TNC_SMS |-> "Mashreq Bank Rewards T&C Summary:\n- Earn points on qualifying transactions (posted within 48hrs)\n- Redeem for vouchers, cashback, or partner offers (min 500 points)\n- Points expire after 24 months from earning\n- Instant redemption via App/Web for select partners\n- No points on fees, cash withdrawals, or flagged transactions\n- Account must be active & KYC compliant\nFull T&C: mashreqbank.com/rewards-tnc",
      TRANSACTION_REFERENCE_SMS |-> "Mashreq Bank: Transaction Reference\nYour transaction details and SWIFT reference were shared during your call.\nPlease retain this SMS for your records.\nFor status updates or assistance, contact Mashreq Bank.\nThank you.",
      REDEMPTION_SMS |-> "Mashreq Bank Rewards: Redemption Confirmation\nYour redemption request details were shared during the call.\nRedemption Rules:\n- Min 500 points required\n- Increments of 100 points\n- Instant redemption is final\nThank you for using Mashreq Rewards.",
      CALL_SUMMARY_SMS |-> "Mashreq Bank: Thank you for your call. A summary of your inquiry has been noted. For any further assistance, please contact us. We value your banking relationship." ]

\* Trigger categories in the order classifyTranscript tries them.
CategoryOrder ==
    << "rewards_tnc", "transaction_reference", "redemption", "complaint", "summary" >>

TRIGGER_KEYWORDS ==
    [ rewards_tnc |->
        << "send terms and conditions", "send the terms", "send me the terms",
           "send t&c", "send tnc", "send t and c",
           "terms and conditions by sms", "terms and conditions via sms",
           "terms by sms", "terms via sms", "t&c by sms", "t&c via sms",
           "tnc by sms", "tnc via sms" >>,
      transaction_reference |->
        << "send swift", "send the swift", "send reference number",
           "send the reference", "send transaction", "swift by sms",
           "swift via sms", "reference by sms", "reference via sms",
           "transaction details by sms", "transaction details via sms" >>,
      redemption |->
        << "send redemption", "send me redemption", "send the redemption",
           "send me the redemption", "redemption rules", "redemption by sms",
           "redemption via sms", "redeem by sms", "redeem via sms",
           "rewards redemption", "how to redeem" >>,
      complaint |->
        << "case reference", "complaint reference", "initiated a complaint",
           "raise a complaint", "raised a complaint", "complaint to investigate",
           "log a complaint", "logged a complaint", "complaint confirmation",
           "complaint status" >>,
      summary |->
        << "send summary via sms", "send me a summary",
           "send confirmation via sms", "send me confirmation",
           "send details via sms" >> ]

BLOCK_KEYWORDS ==
    << "unable to verify", "cannot proceed", "visit branch", "call again",
       "verification failed", "could not verify", "identity not confirmed",
       "please visit", "try again later" >>

\* The template and the reason prefix of each category's return statement.
CategoryTemplate ==
    [ rewards_tnc |-> "REWARDS_TNC_SMS",
      transaction_reference |-> "TRANSACTION_REFERENCE_SMS",
      redemption |-> "REDEMPTION_SMS",
      complaint |-> "COMPLAINT_SMS",
      summary |-> "CALL_SUMMARY_SMS" ]

CategoryReason ==
    [ rewards_tnc |-> "Matched T&C request keyword: ",
      transaction_reference |-> "Matched transaction reference keyword: ",
      redemption |-> "Matched redemption keyword: ",
      complaint |-> "Matched complaint keyword: ",
      summary |-> "Matched summary request keyword: " ]

\* smsType: null
NoTemplate == "null"

(***************************************************************************)
(* classifyTranscript                                                      *)
(***************************************************************************)

\* A loop that does not return at its first match ends on the last one.
lastMatch(lower, list, i) ==
    IF \E k \in i..Len(list) : includes(lower, list[k])
    THEN CHOOSE k \in i..Len(list) :
            /\ includes(lower, list[k])
            /\ \A j \in (k + 1)..Len(list) : ~includes(lower, list[j])
    ELSE 0

\* for (const keyword of list) if (lower.includes(keyword)) return ...:
\* the index of the first keyword of the list found in lower, 0 if none.
RECURSIVE firstMatch(_, _, _)
firstMatch(lower, list, i) ==
    IF i > Len(list) THEN 0
    ELSE IF includes(lower, list[i]) THEN i
    ELSE firstMatch(lower, list, i + 1)

\* A fallback that takes every call that is not INBOUND for an outbound one
fallbackUnlessInbound(callType) ==
    IF callType # Str("INBOUND")
    THEN [ shouldSend |-> TRUE, smsType |-> "OUTBOUND_CONFIRMATION_SMS",
           reason |-> "Outbound call completed" ]
    ELSE [ shouldSend |-> FALSE, smsType |-> NoTemplate,
           reason |-> "No trigger keywords matched" ]

\* Steps 3 and 4: the OUTBOUND fallback, then the no-match result
fallbackDecision(callType) ==
    IF callType = Str("OUTBOUND")
    THEN [ shouldSend |-> TRUE, smsType |-> "OUTBOUND_CONFIRMATION_SMS",
           reason |-> "Outbound call completed" ]
    ELSE [ shouldSend |-> FALSE, smsType |-> NoTemplate,
           reason |-> "No trigger keywords matched" ]

\* return { shouldSend: true, smsType, reason: `Matched ...: "${keyword}"` }
matched(cat, k) ==
    [ shouldSend |-> TRUE, smsType |-> CategoryTemplate[cat],
      reason |-> CategoryReason[cat] \o Quoted(TRIGGER_KEYWORDS[cat][k]) ]

\* Step 3 placed before step 2: the direction decides before the keywords
RECURSIVE classifyOutboundFirst(_, _, _)
classifyOutboundFirst(lower, callType, c) ==
    IF callType = Str("OUTBOUND") \/ c > Len(CategoryOrder)
    THEN fallbackDecision(callType)
    ELSE IF firstMatch(lower, TRIGGER_KEYWORDS[CategoryOrder[c]], 1) > 0
    THEN matched(CategoryOrder[c], firstMatch(lower, TRIGGER_KEYWORDS[CategoryOrder[c]], 1))
    ELSE classifyOutboundFirst(lower, callType, c + 1)

\* Steps 2 to 4: the five category loops in order from category c on, then
\* the fallback
RECURSIVE classifyTriggers(_, _, _)
classifyTriggers(lower, callType, c) ==
    IF c > Len(CategoryOrder)
    THEN fallbackDecision(callType)
    ELSE IF firstMatch(lower, TRIGGER_KEYWORDS[CategoryOrder[c]], 1) > 0
    THEN matched(CategoryOrder[c], firstMatch(lower, TRIGGER_KEYWORDS[CategoryOrder[c]], 1))
    ELSE classifyTriggers(lower, callType, c + 1)

\* return { shouldSend: false, smsType: null, reason: `Blocked: ...` }
blocked(b) ==
    [ shouldSend |-> FALSE, smsType |-> NoTemplate,
      reason |-> "Blocked: transcript contains " \o Quoted(BLOCK_KEYWORDS[b]) ]

\* Step 1, then steps 2 to 4, on the lowercased transcript
classifyLowered(lower, callType) ==
    IF firstMatch(lower, BLOCK_KEYWORDS, 1) > 0
    THEN blocked(firstMatch(lower, BLOCK_KEYWORDS, 1))
    ELSE classifyTriggers(lower, callType, 1)

\* The block check made only when nothing asks for a send
classifyTriggersBeforeBlock(transcript, callType) ==
    IF classifyTriggers(toLowerCase(transcript), callType, 1).shouldSend
    THEN classifyTriggers(toLowerCase(transcript), callType, 1)
    ELSE classifyLowered(toLowerCase(transcript), callType)

classifyTranscript(transcript, callType) ==
    classifyLowered(toLowerCase(transcript), callType)

(***************************************************************************)
(* Field extraction of the webhook handler                                 *)
(***************************************************************************)

\* ElevenLabs phone number (the agent's number)
elevenLabsNumber == "+15856678990"

\* The characters of \s that occur in the payloads
WhiteSpace == {" ", "\t", "\n"}

allCharsIn(s, class) == \A i \in 1..Len(s) : CharAt(s, i) \in class

\* s without the one leading "+" that \+? may consume
afterPlus(s) == IF Len(s) > 0 /\ CharAt(s, 1) = "+" THEN SubSeq(s, 2, Len(s)) ELSE s

\* value.match(/^\+?[0-9\s\-]{10,20}$/)
isPhoneLike(s) ==
    /\ Len(afterPlus(s)) >= 10
    /\ Len(afterPlus(s)) <= 20
    /\ allCharsIn(afterPlus(s), Digits \cup WhiteSpace \cup {"-"})

\* value.match(/^\+?[0-9]{10,15}$/)
isBarePhone(s) ==
    /\ Len(afterPlus(s)) >= 10
    /\ Len(afterPlus(s)) <= 15
    /\ allCharsIn(afterPlus(s), Digits)

\* replace(/[\+\s\-]/g, '')
normalizeDigits(s) == removeChars(s, {"+", "-"} \cup WhiteSpace)

\* call_type: the first truthy value among the probed fields, or 'UNKNOWN'
extractCallType(body) ==
    Or(Get(body, "call_type"),
    Or(Get(body, "callType"),
    Or(Get(body, "type"),
    Or(Get(body, "direction"),
    Or(OptGet(Get(body, "metadata"), "call_type"),
    Or(OptGet(Get(body, "data"), "call_type"),
    Or(OptGet(Get(body, "call"), "type"),
    Or(OptGet(Get(body, "call"), "direction"),
       Str("UNKNOWN")))))))))

\* collectPhones: every phone-like string of the payload in traversal order,
\* with no bound on the depth
RECURSIVE collectPhones(_, _)
RECURSIVE collectPhonesFrom(_, _, _)
collectPhones(obj, path) ==
    IF ~truthy(obj) \/ typeof(obj) # "object" THEN << >>
    ELSE collectPhonesFrom(entries(obj), path, 1)

collectPhonesFrom(es, path, i) ==
    IF i > Len(es) THEN << >>
    ELSE LET key == es[i][1]
             value == es[i][2]
             currentPath == IF path # "" THEN path \o "." \o key ELSE key
             found ==
                IF value.t = "string"
                THEN IF isPhoneLike(value.v)
                     THEN << [ path |-> currentPath,
                               value |-> removeChars(value.v, WhiteSpace \cup {"-"}),
                               original |-> value.v ] >>
                     ELSE << >>
                ELSE IF typeof(value) = "object" /\ value.t # "null"
                     THEN collectPhones(value, currentPath)
                     ELSE << >>
         IN  found \o collectPhonesFrom(es, path, i + 1)

\* The filter of customerPhones: not the agent number
isCustomerPhone(p) ==
    LET num == removeChars(p.value, {"+"})
        agentNum == normalizeDigits(elevenLabsNumber)
    IN  ~includes(num, "15856678990") /\ num # agentNum

customerPhones(body) == SelectSeq(collectPhones(body, ""), isCustomerPhone)

\* customerPhones.length > 0 ? customerPhones[0].value : ''
firstValue(phones) == IF Len(phones) > 0 THEN phones[1].value ELSE ""

selectedPhone(body) == firstValue(customerPhones(body))

\* findPhone: the first string matching the bare pattern, depth first, in
\* objects at depth 0 to 3; null if there is none
RECURSIVE findPhone(_, _)
RECURSIVE findPhoneFrom(_, _, _)
findPhone(obj, depth) ==
    IF depth > 3 \/ ~truthy(obj) \/ typeof(obj) # "object" THEN Null
    ELSE findPhoneFrom(entries(obj), depth, 1)

findPhoneFrom(es, depth, i) ==
    IF i > Len(es) THEN Null
    ELSE LET value == es[i][2]
         IN  IF value.t = "string" /\ isBarePhone(value.v) THEN value
             ELSE IF typeof(value) = "object" /\ truthy(findPhone(value, depth + 1))
                  THEN findPhone(value, depth + 1)
                  ELSE findPhoneFrom(es, depth, i + 1)

\* A thrown TypeError, carried in place of the value of the expression
Thrown(msg) == [t |-> "thrown", v |-> msg]
isThrown(x) == x.t = "thrown"

\* The callback of data.map in extractTranscriptText; reading item.text of
\* a null item throws
itemText(item) ==
    IF item.t = "string" THEN item
    ELSE IF item.t \in {"null", "undefined"}
    THEN Thrown("Cannot read properties of " \o item.t \o " (reading 'text')")
    ELSE IF truthy(Get(item, "text")) THEN Get(item, "text")
    ELSE IF truthy(Get(item, "content")) THEN Get(item, "content")
    ELSE IF truthy(Get(item, "message")) THEN Get(item, "message")
    ELSE IF truthy(Get(item, "transcript")) THEN Get(item, "transcript")
    ELSE IF truthy(Get(item, "role")) /\ truthy(Get(item, "message"))
    THEN Str(JsString(Get(item, "role")) \o ": " \o JsString(Get(item, "message")))
    ELSE Str(stringify(item))

\* The result of data.map(...).join(' '): the fault of the first item that
\* throws, else the items' texts joined by single spaces
joinTexts(texts) ==
    IF \E i \in 1..Len(texts) : isThrown(texts[i])
    THEN texts[CHOOSE i \in 1..Len(texts) :
                  /\ isThrown(texts[i])
                  /\ \A j \in 1..(i - 1) : ~isThrown(texts[j])]
    ELSE Str(joinStrings([i \in 1..Len(texts) |-> JsString(texts[i])], " "))

RECURSIVE extractTranscriptText(_)
extractTranscriptText(data) ==
    IF ~truthy(data) THEN Str("")
    ELSE IF data.t = "string" THEN data
    ELSE IF data.t = "array"
    THEN joinTexts([i \in 1..Len(data.v) |-> itemText(data.v[i])])
    ELSE IF data.t = "object"
    THEN IF truthy(Get(data, "text")) THEN Get(data, "text")
         ELSE IF truthy(Get(data, "content")) THEN Get(data, "content")
         ELSE IF truthy(Get(data, "full_transcript")) THEN Get(data, "full_transcript")
         ELSE IF truthy(Get(data, "messages"))
         THEN extractTranscriptText(Get(data, "messages"))
         ELSE Str(stringify(data))
    ELSE Str(JsString(data))

\* The fields probed for the transcript, in the order of the || chain
transcriptProbes(body) ==
    << Get(body, "transcript"), Get(body, "transcription"),
       Get(body, "conversation"), Get(body, "messages"),
       OptGet(Get(body, "data"), "transcript"),
       OptGet(Get(body, "analysis"), "transcript"),
       OptGet(Get(body, "call"), "transcript") >>

\* a || b || ... || '': the first truthy text; a probe that throws ends the
\* evaluation, and the probes after a truthy one are not evaluated
RECURSIVE firstTranscript(_, _)
orNextProbe(text, probes, i) ==
    IF isThrown(text) \/ truthy(text) THEN text ELSE firstTranscript(probes, i + 1)

firstTranscript(probes, i) ==
    IF i > Len(probes) THEN Str("")
    ELSE orNextProbe(extractTranscriptText(probes[i]), probes, i)

\* String(transcript || ''), or the fault thrown on the way
stringOrThrown(text) == IF isThrown(text) THEN text ELSE Str(JsString(text))

\* The transcript before the payload fallback
extractTranscript(body) == stringOrThrown(firstTranscript(transcriptProbes(body), 1))

\* A fallback that serializes the payload whatever its size
withPayloadFallbackAnySize(transcript, body) ==
    IF transcript = "" THEN stringify(body) ELSE transcript

\* if (!transcript) { const payloadStr = JSON.stringify(body);
\*                    if (payloadStr.length > 100) transcript = payloadStr }
withPayloadFallback(transcript, body) ==
    IF transcript = "" /\ Len(stringify(body)) > 100 THEN stringify(body)
    ELSE transcript

(***************************************************************************)
(* State                                                                   *)
(***************************************************************************)

\* The deliveries that can be in flight at once
NumDeliveries == 2
Deliveries == 1..NumDeliveries

VARIABLES
    env,        \* process.env: the Twilio settings, "" when not configured
    pc,         \* per delivery: "idle", "received", "awaitSend", "responded"
    req,        \* per delivery: the request, [method, body]
    locals,     \* per delivery: the handler's variables, as far as it got
    res,        \* per delivery: the response, [status, body]
    sends,      \* per delivery: the messages.create requests issued
    input,      \* classifier under test: the [transcript, callType] given
    decision,   \* classifier under test: the decisions returned, in order
    call,       \* call initiation: the endpoint, its settings, its request,
                \* the requests made to the provider, its response
    debug       \* debug endpoint: lastPayload, lastReceivedAt, the clock, the
                \* latest request and response, the most recent POST

vars == << env, pc, req, locals, res, sends, input, decision, call, debug >>

NoRequest == [method |-> "", body |-> Undefined]
NoResponse == [status |-> 0, body |-> [ended |-> FALSE]]
NotClassified == [shouldSend |-> FALSE, smsType |-> NoTemplate, reason |-> ""]
NoResult == [success |-> FALSE, messageId |-> "", error |-> ""]

\* The handler's variables before it has run: nothing extracted, the
\* classifier not called, sendSMS not called, no fault thrown
NoLocals ==
    [ call_type |-> Undefined, phone_number |-> "", transcript |-> "",
      extracted |-> FALSE, classified |-> FALSE,
      classification |-> NotClassified, smsResult |-> NoResult, thrown |-> "" ]

\* The call-initiation endpoints before they are used
NoConfig ==
    [ ELEVENLABS_API_KEY |-> "", ELEVENLABS_AGENT_ID |-> "",
      ELEVENLABS_PHONE_NUMBER_ID |-> "" ]
NoReply == [settled |-> FALSE, failure |-> "", ok |-> FALSE, status |-> 0, data |-> Undefined]
NoCall ==
    [ server |-> "", config |-> NoConfig, pc |-> "idle", req |-> NoRequest,
      res |-> NoResponse, fetches |-> << >>, reply |-> NoReply ]

\* The debug endpoint when the process starts
NoPost == [posted |-> FALSE, body |-> Undefined, at |-> ""]
NoDebug ==
    [ lastPayload |-> Null, lastReceivedAt |-> Null, now |-> 0,
      req |-> NoRequest, res |-> [status |-> 0, body |-> Undefined], last |-> NoPost ]

(***************************************************************************)
(* sendSMS                                                                 *)
(***************************************************************************)

\* sendSMS checking the template only
sendSMSPrecheckTemplateOnly(smsType, e) ==
    IF smsType \notin TemplateIds THEN "Unknown SMS type: " \o smsType ELSE ""

\* The checks of sendSMS before the Twilio client is used: the failure it
\* returns without a gateway call, or "" when it goes on to send
sendSMSPrecheck(smsType, e) ==
    IF e.TWILIO_ACCOUNT_SID = "" \/ e.TWILIO_AUTH_TOKEN = "" \/ e.TWILIO_FROM_NUMBER = ""
    THEN "Missing Twilio credentials"
    ELSE IF smsType \notin TemplateIds
    THEN "Unknown SMS type: " \o smsType
    ELSE ""

\* A message that addresses the customer by the number called
sendSMSPersonalised(toNumber, smsType, e) ==
    [ body |-> "To " \o toNumber \o ": " \o SMS_TEMPLATES[smsType],
      from |-> e.TWILIO_FROM_NUMBER, to |-> toNumber ]

\* client.messages.create({ body, from, to })
sendSMSRequest(toNumber, smsType, e) ==
    [ body |-> SMS_TEMPLATES[smsType], from |-> e.TWILIO_FROM_NUMBER, to |-> toNumber ]

\* What sendSMS returns without a gateway call
sendSMSFailure(failure) == [success |-> FALSE, messageId |-> "", error |-> failure]

\* What sendSMS returns once messages.create has settled: message.sid when
\* it resolved, error.message when it rejected
sendSMSResult(outcome) ==
    IF outcome.resolved
    THEN [success |-> TRUE, messageId |-> outcome.sid, error |-> ""]
    ELSE [success |-> FALSE, messageId |-> "", error |-> outcome.message]

\* A second attempt after a rejected send
retryOnFailure(request, result) == IF result.success THEN << >> ELSE << request >>

\* The gateway calls sendSMS makes after messages.create has settled: it
\* returns the result, whatever it is
sendsAfterAnswer(request, result) == << >>

(***************************************************************************)
(* The webhook handler                                                     *)
(***************************************************************************)

Respond(status, body) == [status |-> status, body |-> body]

\* A fault that leaves the handler unanswered is the platform's 500
catchRethrown(message) == Respond(500, [error |-> message])

\* A catch clause that keeps the fault's message to the log
catchWithoutDetail(message) ==
    Respond(200, [received |-> TRUE, sms_sent |-> FALSE, error |-> "Internal error"])

\* The catch clause of the handler
catchResponse(message) ==
    Respond(200, [received |-> TRUE, sms_sent |-> FALSE, error |-> message])

\* The check against the configured sender alone
matchesSenderOnly(phone_number, e) ==
    normalizeDigits(phone_number) = normalizeDigits(e.TWILIO_FROM_NUMBER)

\* if (normalizedTo === normalizedFrom || normalizedTo.includes('15856678990'))
matchesAgentPhone(phone_number, e) ==
    LET normalizedTo == normalizeDigits(phone_number)
        normalizedFrom == normalizeDigits(e.TWILIO_FROM_NUMBER)
    IN  normalizedTo = normalizedFrom \/ includes(normalizedTo, "15856678990")

\* What a run of the handler leaves: the response and the variables
finished(response, l) ==
    [ pc |-> "responded", res |-> response, locals |-> l, sends |-> << >> ]

\* await sendSMS(phone_number, classification.smsType): the failure sendSMS
\* returns before any gateway call, or the send and the await of its answer
sendStage(e, l, failure) ==
    IF failure # ""
    THEN finished(Respond(200, [ received |-> TRUE, sms_sent |-> FALSE,
                                 sms_error |-> failure,
                                 reason |-> l.classification.reason ]),
                  [ l EXCEPT !.smsResult = sendSMSFailure(failure) ])
    ELSE [ pc |-> "awaitSend", res |-> NoResponse, locals |-> l,
           sends |-> << sendSMSRequest(l.phone_number, l.classification.smsType, e) >> ]

\* A dispatch that does not look at shouldSend
dispatchWithoutGate(body, e, l) ==
    sendStage(e, l, sendSMSPrecheck(l.classification.smsType, e))

\* From the classification result to the send
dispatchStage(body, e, l) ==
    IF ~l.classification.shouldSend
    THEN finished(Respond(200, [ received |-> TRUE, sms_sent |-> FALSE,
                                 reason |-> l.classification.reason ]), l)
    ELSE IF matchesAgentPhone(l.phone_number, e)
    THEN finished(Respond(200,
                    [ received |-> TRUE, sms_sent |-> FALSE,
                      reason |-> "Customer phone not found in webhook - matches agent phone",
                      debug |-> [ extracted_phone |-> l.phone_number,
                                  twilio_from |-> e.TWILIO_FROM_NUMBER,
                                  payload_keys |-> keys(body) ] ]), l)
    ELSE sendStage(e, l, sendSMSPrecheck(l.classification.smsType, e))

\* const classification = classifyTranscript(transcript, call_type || 'INBOUND')
classifyStage(body, e, l) ==
    dispatchStage(body, e,
        [ l EXCEPT !.classified = TRUE,
                   !.classification =
                       classifyTranscript(l.transcript, Or(l.call_type, Str("INBOUND"))) ])

\* if (!phone_number): the fallback scan, and the response when it finds
\* nothing
phoneStage(body, e, l, foundPhone) ==
    IF l.phone_number = "" /\ ~truthy(foundPhone)
    THEN finished(Respond(200, [ received |-> TRUE, sms_sent |-> FALSE,
                                 reason |-> "No phone number found in webhook payload",
                                 payload_keys |-> keys(body) ]), l)
    ELSE classifyStage(body, e,
            [ l EXCEPT !.phone_number = IF l.phone_number = "" THEN foundPhone.v
                                        ELSE l.phone_number ])

\* From the extracted transcript (or the fault of its extraction, which the
\* catch clause answers) to the phone fallback
transcriptStage(body, e, l, extracted) ==
    IF isThrown(extracted)
    THEN finished(catchResponse(extracted.v), [ l EXCEPT !.thrown = extracted.v ])
    ELSE phoneStage(body, e,
            [ l EXCEPT !.transcript = withPayloadFallback(extracted.v, body),
                       !.extracted = TRUE ],
            findPhone(body, 0))

\* The try block: call_type and the primary phone scan first
tryBlock(body, e) ==
    transcriptStage(body, e,
        [ NoLocals EXCEPT !.call_type = extractCallType(body),
                          !.phone_number = selectedPhone(body) ],
        extractTranscript(body))

\* The handler from its first line to its response or to the await of the
\* gateway call: [pc, res, locals, sends] of the delivery afterwards.
handlerRun(r, e) ==
    IF r.method = "OPTIONS"
    THEN finished(Respond(200, [ended |-> TRUE]), NoLocals)
    ELSE IF r.method # "POST"
    THEN finished(Respond(405, [error |-> "Method not allowed"]), NoLocals)
    ELSE tryBlock(IF truthy(r.body) THEN r.body ELSE Obj(<< >>), e)

\* A handler that reports every settled send as sent
handlerResumeOptimistic(l, smsResult) ==
    Respond(200, [ received |-> TRUE, sms_sent |-> TRUE,
                   sms_type |-> l.classification.smsType,
                   message_id |-> smsResult.messageId,
                   reason |-> l.classification.reason ])

\* The handler after sendSMS has returned smsResult
handlerResume(l, smsResult) ==
    IF smsResult.success
    THEN Respond(200, [ received |-> TRUE, sms_sent |-> TRUE,
                        sms_type |-> l.classification.smsType,
                        message_id |-> smsResult.messageId,
                        reason |-> l.classification.reason ])
    ELSE Respond(200, [ received |-> TRUE, sms_sent |-> FALSE,
                        sms_error |-> smsResult.error,
                        reason |-> l.classification.reason ])

(***************************************************************************)
(* The requests, settings and gateway answers the model draws from         *)
(***************************************************************************)

\* The deepest nesting of a phone field in the generated payloads
MaxDepth == 5

Customer == "+971501234567"
CustomerSpaced == "+971 50 123 4567"
OtherCustomer == "+971509876543"
AgentHyphenated == "+1 585-667-8990"
AgentInternational == "0015856678990"
LongNumber == "00971501234567890"
TwilioNumber == "+12025550100"

Field(key, value) == << <<key, value>> >>

\* es wrapped in k nested objects
RECURSIVE nested(_, _)
nested(es, k) == IF k = 0 THEN es ELSE Field("details", Obj(nested(es, k - 1)))

DirectionFields ==
    { << >>,
      Field("call_type", Str("OUTBOUND")),
      Field("callType", Str("INBOUND")),
      Field("metadata", Obj(Field("call_type", Str("OUTBOUND")))),
      Field("call", Obj(Field("direction", Str("outbound")))),
      Field("type", Str("post_call_transcription")) \o Field("direction", Str("OUTBOUND")) }

PhoneFields ==
    { << >>,
      Field("from", Str(elevenLabsNumber)) \o Field("to", Str(Customer)),
      Field("from", Str(OtherCustomer)) \o Field("to", Str(Customer)),
      Field("to", Str(elevenLabsNumber)) \o Field("from", Str(CustomerSpaced)),
      Field("from", Str(AgentHyphenated)),
      Field("caller", Str(AgentInternational)),
      Field("to", Str(TwilioNumber)),
      Field("to", Str(LongNumber)),
      Field("phone_number", Str("12345")),
      Field("customer_phone", Num(5551234)),
      Field("numbers", Arr(<< Null, Str(elevenLabsNumber), Str(Customer) >>)) }
    \cup { nested(Field("to", Str(Customer)), k) : k \in 0..MaxDepth }
    \cup { nested(Field("from", Str(elevenLabsNumber)), k) : k \in 0..MaxDepth }

Turn(role, message) == Obj(Field("role", Str(role)) \o Field("message", Str(message)))

TranscriptFields ==
    { << >>,
      Field("transcript", Str("Please send me the terms and conditions by SMS")),
      Field("transcript", Str("We were unable to verify your identity, please visit a branch. Send TNC?")),
      Field("transcript", Str("Thank you, goodbye")),
      Field("transcript", Arr(<< Turn("agent", "I have raised a complaint for you"),
                               Turn("user", "Thanks") >>)),
      Field("transcript", Arr(<< Str("Hello"), Null >>)),
      Field("transcription", Num(0))
        \o Field("messages", Arr(<< Obj(Field("text", Str("Can you send SWIFT details"))),
                                    Num(7), Bool(FALSE) >>)),
      Field("data", Obj(Field("transcript",
                              Obj(Field("full_transcript", Str("How to redeem my points?")))))),
      Field("conversation", Obj(Field("id", Num(42)))),
      Field("transcript", Str(""))
        \o Field("notes", Str("The customer asked the agent to send summary via SMS after the call and the agent agreed to do so.")) }

ObjectBodies ==
    { Obj(d \o ph \o tr) : d \in DirectionFields, ph \in PhoneFields, tr \in TranscriptFields }

OtherBodies ==
    { Undefined, Null, Str("call ended"), Num(7), Bool(TRUE),
      Arr(<< Str(Customer), Str("send tnc") >>) }

Requests ==
    { [method |-> "POST", body |-> b] : b \in ObjectBodies \cup OtherBodies }
    \cup { [method |-> m, body |-> Undefined] : m \in {"OPTIONS", "GET", "PUT"} }

Environments ==
    { [ TWILIO_ACCOUNT_SID |-> "AC01", TWILIO_AUTH_TOKEN |-> "token",
        TWILIO_FROM_NUMBER |-> TwilioNumber ],
      [ TWILIO_ACCOUNT_SID |-> "AC01", TWILIO_AUTH_TOKEN |-> "token",
        TWILIO_FROM_NUMBER |-> elevenLabsNumber ],
      [ TWILIO_ACCOUNT_SID |-> "AC01", TWILIO_AUTH_TOKEN |-> "token",
        TWILIO_FROM_NUMBER |-> "" ],
      [ TWILIO_ACCOUNT_SID |-> "", TWILIO_AUTH_TOKEN |-> "token",
        TWILIO_FROM_NUMBER |-> TwilioNumber ],
      [ TWILIO_ACCOUNT_SID |-> "AC01", TWILIO_AUTH_TOKEN |-> "",
        TWILIO_FROM_NUMBER |-> TwilioNumber ] }

\* How messages.create settles: resolved with a message sid, or rejected
GatewayReplies ==
    { [resolved |-> TRUE, sid |-> "SM0001", message |-> ""],
      [resolved |-> FALSE, sid |-> "",
       message |-> "The 'To' number is not a valid phone number."] }

NoInput == [transcript |-> "", callType |-> Undefined]

(***************************************************************************)
(* The handler as a state machine                                          *)
(***************************************************************************)

HandlerIdle ==
    /\ pc = [d \in Deliveries |-> "idle"]
    /\ req = [d \in Deliveries |-> NoRequest]
    /\ locals = [d \in Deliveries |-> NoLocals]
    /\ res = [d \in Deliveries |-> NoResponse]
    /\ sends = [d \in Deliveries |-> << >>]

Init ==
    /\ env \in Environments
    /\ HandlerIdle
    /\ input = NoInput
    /\ decision = << >>
    /\ call = NoCall
    /\ debug = NoDebug

\* A request arrives on connection d
Deliver(d) ==
    /\ pc[d] = "idle"
    /\ \E r \in Requests : req' = [req EXCEPT ![d] = r]
    /\ pc' = [pc EXCEPT ![d] = "received"]
    /\ UNCHANGED << env, locals, res, sends, input, decision, call, debug >>

\* The handler runs to its response or to the await of the gateway call
Ran(d, run) ==
    /\ pc' = [pc EXCEPT ![d] = run.pc]
    /\ res' = [res EXCEPT ![d] = run.res]
    /\ locals' = [locals EXCEPT ![d] = run.locals]
    /\ sends' = [sends EXCEPT ![d] = run.sends]

RunHandler(d) ==
    /\ pc[d] = "received"
    /\ Ran(d, handlerRun(req[d], env))
    /\ UNCHANGED << env, req, input, decision, call, debug >>

\* A handler that keeps its variables at module level: the response is built
\* from the variables of the latest delivery that still awaits its send
ResumedShared(d, smsResult) ==
    LET latest == CHOOSE e \in Deliveries :
                      /\ pc[e] = "awaitSend"
                      /\ \A f \in Deliveries : pc[f] = "awaitSend" => f <= e
    IN  /\ locals' = [locals EXCEPT ![d].smsResult = smsResult]
        /\ res' = [res EXCEPT ![d] = handlerResume(locals[latest], smsResult)]
        /\ sends' = [sends EXCEPT ![d] = @ \o sendsAfterAnswer(@[Len(@)], smsResult)]

\* sendSMS returns and the handler responds
Resumed(d, smsResult) ==
    /\ locals' = [locals EXCEPT ![d].smsResult = smsResult]
    /\ res' = [res EXCEPT ![d] = handlerResume(locals[d], smsResult)]
    /\ sends' = [sends EXCEPT ![d] = @ \o sendsAfterAnswer(@[Len(@)], smsResult)]

\* The gateway answers the send: sendSMS returns and the handler responds
GatewayReply(d) ==
    /\ pc[d] = "awaitSend"
    /\ \E reply \in GatewayReplies : Resumed(d, sendSMSResult(reply))
    /\ pc' = [pc EXCEPT ![d] = "responded"]
    /\ UNCHANGED << env, req, input, decision, call, debug >>

\* The response has gone out; the connection can carry the next request
Close(d) ==
    /\ pc[d] = "responded"
    /\ pc' = [pc EXCEPT ![d] = "idle"]
    /\ req' = [req EXCEPT ![d] = NoRequest]
    /\ locals' = [locals EXCEPT ![d] = NoLocals]
    /\ res' = [res EXCEPT ![d] = NoResponse]
    /\ sends' = [sends EXCEPT ![d] = << >>]
    /\ UNCHANGED << env, input, decision, call, debug >>

\* One delivery at a time
Next ==
    \/ Deliver(1)
    \/ RunHandler(1)
    \/ GatewayReply(1)
    \/ Close(1)

Spec == Init /\ [][Next]_vars

\* Delivery d leaves position at
Leaves(d, at) ==
    /\ pc[d] = at
    /\ \E to \in {"idle", "awaitSend", "responded"} \ {at} : pc' = [pc EXCEPT ![d] = to]

\* The platform runs an invoked handler to its response or to its await, and
\* closes an answered request: a delivery does not stay at "received" or at
\* "responded", which only RunHandler and Close let it leave. Nothing makes
\* the gateway settle a send, so nothing is asked of "awaitSend".
SpecLive ==
    /\ Init
    /\ [][Next]_vars
    /\ WF_pc(Leaves(1, "received"))
    /\ WF_pc(Leaves(1, "responded"))

(***************************************************************************)
(* Deliveries handled at the same time: every delivery takes its steps     *)
(* whenever it can, over a sample of the requests.                         *)
(***************************************************************************)

SampleBodies ==
    { Undefined,
      Obj(Field("call_type", Str("OUTBOUND")) \o Field("to", Str(Customer))
            \o Field("transcript", Str("Thank you, goodbye"))),
      Obj(Field("from", Str(OtherCustomer)) \o Field("to", Str(Customer))
            \o Field("transcript", Str("Please send me the terms and conditions by SMS"))),
      Obj(Field("call_type", Str("OUTBOUND")) \o Field("from", Str(elevenLabsNumber))),
      Obj(Field("to", Str(Customer)) \o Field("transcript", Arr(<< Str("Hello"), Null >>))) }

SampleRequests ==
    { [method |-> "POST", body |-> b] : b \in SampleBodies }
    \cup { [method |-> "GET", body |-> Undefined] }

DeliverSample(d) ==
    /\ pc[d] = "idle"
    /\ \E r \in SampleRequests : req' = [req EXCEPT ![d] = r]
    /\ pc' = [pc EXCEPT ![d] = "received"]
    /\ UNCHANGED << env, locals, res, sends, input, decision, call, debug >>

NextConcurrent ==
    \E d \in Deliveries :
        \/ DeliverSample(d)
        \/ RunHandler(d)
        \/ GatewayReply(d)
        \/ Close(d)

SpecConcurrent == Init /\ [][NextConcurrent]_vars

(***************************************************************************)
(* The classifier on its own: one call on a transcript and a direction     *)
(* drawn from every ordered pair of keywords, block and trigger alike.     *)
(***************************************************************************)

RECURSIVE flatten(_)
flatten(lists) == IF Len(lists) = 0 THEN << >> ELSE Head(lists) \o flatten(Tail(lists))

AllKeywords ==
    BLOCK_KEYWORDS \o flatten([c \in 1..Len(CategoryOrder) |-> TRIGGER_KEYWORDS[CategoryOrder[c]]])

\* What a transcript is put together from: nothing, each keyword as listed,
\* and text that holds a keyword in other letter case, inside a longer
\* word, or not at all
Fragments ==
    { AllKeywords[i] : i \in 1..Len(AllKeywords) }
    \cup { "", "Thank you, goodbye", "Please SEND TNC now", "We were Unable To Verify you",
           "resend transactions", "complaint", "terms and conditions" }

Transcripts == { "" } \cup { a \o ". " \o b : a \in Fragments, b \in Fragments }

CallTypes == { Str("OUTBOUND"), Str("INBOUND"), Str("UNKNOWN"), Str("outbound") }

ClassifierInputs ==
    { [transcript |-> t, callType |-> c] : t \in Transcripts, c \in CallTypes }

Unconfigured ==
    [ TWILIO_ACCOUNT_SID |-> "", TWILIO_AUTH_TOKEN |-> "", TWILIO_FROM_NUMBER |-> "" ]

InitClassify ==
    /\ env = Unconfigured
    /\ HandlerIdle
    /\ input \in ClassifierInputs
    /\ decision = << >>
    /\ call = NoCall
    /\ debug = NoDebug

Classify ==
    /\ decision = << >>
    /\ decision' = << classifyTranscript(input.transcript, input.callType) >>
    /\ UNCHANGED << env, pc, req, locals, res, sends, input, call, debug >>

NextClassify == Classify

SpecClassify == InitClassify /\ [][NextClassify]_vars

(***************************************************************************)
(* Call initiation: the serverless function of api/outbound-call.js        *)
(* ("function") and the route of the Express server ("express")            *)
(***************************************************************************)

\* !x || typeof x !== 'string'
notAString(x) == ~truthy(x) \/ typeof(x) # "string"

\* x.startsWith('+')
startsWithPlus(s) == Len(s) >= 1 /\ CharAt(s, 1) = "+"

required(x, message) == IF notAString(x) THEN << message >> ELSE << >>

\* The validation of the serverless function
validationErrors(body) ==
    LET phoneNumber == Get(body, "phoneNumber")
    IN  (IF notAString(phoneNumber)
         THEN << "Phone number is required" >>
         ELSE IF ~startsWithPlus(phoneNumber.v)
         THEN << "Phone number must be in E.164 format (e.g., +971...)" >>
         ELSE << >>)
        \o required(Get(body, "fullName"), "Full name is required")
        \o required(Get(body, "preferredLanguage"), "Preferred language is required")
        \o required(Get(body, "callReason"), "Call reason is required")

\* validateRequest of the Express server
validateRequest(body) ==
    LET phoneNumber == Get(body, "phoneNumber")
        contextData == Get(body, "contextData")
    IN  (IF notAString(phoneNumber)
         THEN << "phoneNumber is required and must be a string" >>
         ELSE IF ~startsWithPlus(phoneNumber.v)
         THEN << "phoneNumber must be in E.164 format (e.g., +9718600883826)" >>
         ELSE << >>)
        \o required(Get(body, "fullName"), "fullName is required and must be a string")
        \o required(Get(body, "preferredLanguage"),
                    "preferredLanguage is required and must be a string")
        \o required(Get(body, "callReason"), "callReason is required and must be a string")
        \o (IF truthy(contextData) /\ typeof(contextData) # "object"
            THEN << "contextData must be an object if provided" >>
            ELSE << >>)

\* fullName.split(' ')[0]
firstWord(s) ==
    IF \E i \in 1..Len(s) : CharAt(s, i) = " "
    THEN SubSeq(s, 1, (CHOOSE i \in 1..Len(s) :
                          /\ CharAt(s, i) = " "
                          /\ \A j \in 1..(i - 1) : CharAt(s, j) # " ") - 1)
    ELSE s

\* preferredLanguage.toLowerCase().includes('arabic')
isArabic(preferredLanguage) == includes(toLowerCase(preferredLanguage), "arabic")

\* The greeting: the Arabic or the English sentence (named by its language
\* here) around the first name and the call reason
firstMessage(body) ==
    [ sentence |-> IF isArabic(Get(body, "preferredLanguage").v) THEN "ar" ELSE "en",
      firstName |-> firstWord(Get(body, "fullName").v),
      callReason |-> Get(body, "callReason").v ]

buildOutboundContext(body) ==
    Obj(<< <<"callType", Str("OUTBOUND")>>,
           <<"customer", Obj(<< <<"fullName", Get(body, "fullName")>>,
                                <<"preferredLanguage", Get(body, "preferredLanguage")>> >>)>>,
           <<"reason", Get(body, "callReason")>>,
           <<"contextData", Or(Get(body, "contextData"), Obj(<< >>))>>,
           <<"rules", Obj(<< <<"noAuthentication", Bool(TRUE)>>,
                             <<"noDataCollection", Bool(TRUE)>>,
                             <<"noComplaintCreation", Bool(TRUE)>> >>)>> >>)

\* context_<key> for every entry of contextData
contextVariables(contextData) ==
    [ i \in 1..Len(entries(contextData)) |->
        << "context_" \o entries(contextData)[i][1],
           IF typeof(entries(contextData)[i][2]) = "object"
           THEN stringify(entries(contextData)[i][2])
           ELSE JsString(entries(contextData)[i][2]) >> ]

\* The context entries each endpoint adds: the function when contextData is
\* an object, the server for contextData || {}
contextOf(server, contextData) ==
    IF truthy(contextData) /\ typeof(contextData) = "object"
    THEN contextVariables(contextData)
    ELSE << >>

dynamicVariables(server, body) ==
    << <<"customer_name", Get(body, "fullName").v>>,
       <<"customer_first_name", firstWord(Get(body, "fullName").v)>>,
       <<"preferred_language", Get(body, "preferredLanguage").v>>,
       <<"call_type", "OUTBOUND">>,
       <<"call_reason", Get(body, "callReason").v>>,
       <<"outbound_context", stringify(buildOutboundContext(body))>> >>
    \o contextOf(server, Get(body, "contextData"))

\* The request of fetch('https://api.elevenlabs.io/v1/convai/twilio/outbound-call')
requestBody(server, body, config) ==
    [ xi_api_key |-> config.ELEVENLABS_API_KEY,
      agent_id |-> config.ELEVENLABS_AGENT_ID,
      agent_phone_number_id |-> config.ELEVENLABS_PHONE_NUMBER_ID,
      to_number |-> Get(body, "phoneNumber").v,
      dynamic_variables |-> dynamicVariables(server, body),
      first_message |-> firstMessage(body) ]

\* The catch clause of either endpoint. In the responses of the endpoints
\* message is a JS value: the function passes on whatever the provider put
\* in its error, a string or not
failedToInitiate(message) ==
    Respond(500, [ success |-> FALSE, error |-> "Failed to initiate outbound call",
                   message |-> Str(message) ])

validationFailed(errors) ==
    Respond(400, [ success |-> FALSE, error |-> "Validation failed", details |-> errors ])

\* What a run of an endpoint leaves: its response, or the fetch it awaits
answered(c, response) == [ c EXCEPT !.pc = "responded", !.res = response ]
fetching(c, request) == [ c EXCEPT !.pc = "awaitProvider", !.fetches = << request >> ]

missingConfig(config) ==
    \/ config.ELEVENLABS_API_KEY = ""
    \/ config.ELEVENLABS_AGENT_ID = ""
    \/ config.ELEVENLABS_PHONE_NUMBER_ID = ""

\* The serverless function from the validated body on
functionForward(c, body) ==
    IF missingConfig(c.config)
    THEN answered(c, Respond(500, [ success |-> FALSE,
                                    error |-> "Server configuration error",
                                    message |-> Str("Missing environment variables") ]))
    ELSE fetching(c, requestBody("function", body, c.config))

functionValidated(c, body, errors) ==
    IF Len(errors) > 0
    THEN answered(c, validationFailed(errors))
    ELSE functionForward(c, body)

\* The serverless function up to its response or its fetch; destructuring
\* a body that is null or undefined throws
functionRun(c) ==
    IF c.req.method = "OPTIONS"
    THEN answered(c, Respond(200, [ended |-> TRUE]))
    ELSE IF c.req.method # "POST"
    THEN answered(c, Respond(405, [success |-> FALSE, error |-> "Method not allowed"]))
    ELSE IF c.req.body.t \in {"null", "undefined"}
    THEN answered(c, failedToInitiate(
            "Cannot destructure property 'phoneNumber' of 'req.body' as it is "
                \o c.req.body.t \o "."))
    ELSE functionValidated(c, c.req.body, validationErrors(c.req.body))

\* The route of the Express server up to its response or its fetch
expressValidated(c, body, errors) ==
    IF Len(errors) > 0
    THEN answered(c, validationFailed(errors))
    ELSE fetching(c, requestBody("express", body, c.config))

expressRun(c) == expressValidated(c, c.req.body, validateRequest(c.req.body))

\* data.detail?.message || data.detail || data.message || JSON.stringify(data)
functionErrorMessage(data) ==
    LET detail == Get(data, "detail")
        viaDetail == IF detail.t \in {"null", "undefined"} THEN Undefined
                     ELSE Get(detail, "message")
    IN  IF truthy(viaDetail) THEN viaDetail
        ELSE IF truthy(detail) THEN detail
        ELSE IF truthy(Get(data, "message")) THEN Get(data, "message")
        ELSE Str(stringify(data))

\* new Error(data.detail?.message || data.message || 'Failed to initiate
\* outbound call').message
expressErrorMessage(data) ==
    LET detail == Get(data, "detail")
        viaDetail == IF detail.t \in {"null", "undefined"} THEN Undefined
                     ELSE Get(detail, "message")
    IN  IF truthy(viaDetail) THEN JsString(viaDetail)
        ELSE IF truthy(Get(data, "message")) THEN JsString(Get(data, "message"))
        ELSE "Failed to initiate outbound call"

initiated(body, data) ==
    Respond(200, [ success |-> TRUE,
                   message |-> Str("Outbound call initiated successfully"),
                   data |-> [ conversationId |-> Get(data, "conversation_id"),
                              callSid |-> Get(data, "callSid"),
                              phoneNumber |-> Get(body, "phoneNumber"),
                              customer |-> Get(body, "fullName"),
                              callReason |-> Get(body, "callReason"),
                              outboundContext |-> buildOutboundContext(body) ] ])

\* A function that takes every answer it can read for a success
functionResumeAnyAnswer(c, reply) ==
    IF reply.failure # "" THEN failedToInitiate(reply.failure)
    ELSE initiated(c.req.body, reply.data)

\* The serverless function after the provider's answer: a failed fetch or
\* an unreadable body throws, a non-success status is passed on
functionResume(c, reply) ==
    IF reply.failure # "" THEN failedToInitiate(reply.failure)
    ELSE IF ~reply.ok
    THEN Respond(reply.status, [ success |-> FALSE, error |-> "ElevenLabs API error",
                                 message |-> functionErrorMessage(reply.data) ])
    ELSE initiated(c.req.body, reply.data)

\* The Express route after the provider's answer: initiateOutboundCall
\* throws on a non-success status, and the route answers every throw with 500
expressResume(c, reply) ==
    IF reply.failure # "" THEN failedToInitiate(reply.failure)
    ELSE IF ~reply.ok THEN failedToInitiate(expressErrorMessage(reply.data))
    ELSE initiated(c.req.body, reply.data)

\* The bodies posted: each field absent, well-formed or ill-formed
Optional(key, values) == { << >> } \cup { Field(key, v) : v \in values }

CallObjects ==
    { Obj(ph \o n \o l \o r \o x) :
        ph \in Optional("phoneNumber", { Str("+9718600883826"), Str("0501234567"), Num(5) }),
        n \in Optional("fullName", { Str("Yousef Sheikh"), Str("") }),
        l \in Optional("preferredLanguage", { Str("UAE Arabic"), Str("English") }),
        r \in Optional("callReason", { Str("Complaint Resolution Update"), Bool(TRUE) }),
        x \in Optional("contextData", { Obj(Field("complaintStatus", Str("Resolved"))
                                            \o Field("attempts", Num(2))),
                                        Str("urgent") }) }

\* What the function can find in req.body, and what express.json() leaves
\* there
FunctionRequests ==
    { [method |-> "POST", body |-> b] :
        b \in CallObjects \cup { Undefined, Null, Str("call me"), Arr(<< >>) } }
    \cup { [method |-> m, body |-> Undefined] : m \in {"OPTIONS", "GET"} }

ExpressRequests == { [method |-> "POST", body |-> b] : b \in CallObjects \cup { Arr(<< >>) } }

Configured ==
    [ ELEVENLABS_API_KEY |-> "xi-key", ELEVENLABS_AGENT_ID |-> "agent_01",
      ELEVENLABS_PHONE_NUMBER_ID |-> "phnum_01" ]

\* The server exits at startup without its settings (validateConfig); the
\* function checks them on every request
Endpoints ==
    { [NoCall EXCEPT !.server = "function", !.config = Configured],
      [NoCall EXCEPT !.server = "function",
                     !.config = [Configured EXCEPT !.ELEVENLABS_API_KEY = ""]],
      [NoCall EXCEPT !.server = "express", !.config = Configured] }

\* How the fetch and response.json() settle: failure is the message of the
\* rejection, "" when the provider's answer was read
ProviderAnswer(status, data) ==
    [ settled |-> TRUE, failure |-> "", ok |-> status \in 200..299,
      status |-> status, data |-> data ]

ProviderReplies ==
    { ProviderAnswer(200, Obj(Field("conversation_id", Str("conv_01"))
                              \o Field("callSid", Str("CA01")))),
      ProviderAnswer(422, Obj(Field("detail",
                                    Obj(Field("message", Str("Invalid phone number")))))),
      ProviderAnswer(401, Obj(Field("detail", Str("Invalid API key")))),
      ProviderAnswer(404, Obj(Field("message", Str("Agent not found")))),
      ProviderAnswer(503, Obj(Field("code", Num(17)))),
      [ settled |-> TRUE, failure |-> "Unexpected token < in JSON at position 0",
        ok |-> FALSE, status |-> 502, data |-> Undefined ],
      [ settled |-> TRUE, failure |-> "fetch failed",
        ok |-> FALSE, status |-> 0, data |-> Undefined ] }

InitCall ==
    /\ env = Unconfigured
    /\ HandlerIdle
    /\ input = NoInput
    /\ decision = << >>
    /\ call \in Endpoints
    /\ debug = NoDebug

webhookVars == << env, pc, req, locals, res, sends, input, decision >>

\* A request arrives at the endpoint
CallArrives ==
    /\ call.pc = "idle"
    /\ \E r \in IF call.server = "function" THEN FunctionRequests ELSE ExpressRequests :
          call' = [call EXCEPT !.pc = "received", !.req = r]
    /\ UNCHANGED << webhookVars, debug >>

\* The endpoint runs to its response or to the await of its fetch
CallRun ==
    /\ call.pc = "received"
    /\ call' = IF call.server = "function" THEN functionRun(call) ELSE expressRun(call)
    /\ UNCHANGED << webhookVars, debug >>

\* The fetch settles and the endpoint responds
ProviderReply ==
    /\ call.pc = "awaitProvider"
    /\ \E reply \in ProviderReplies :
          call' = [call EXCEPT !.pc = "responded",
                               !.reply = reply,
                               !.res = IF call.server = "function"
                                       THEN functionResume(call, reply)
                                       ELSE expressResume(call, reply)]
    /\ UNCHANGED << webhookVars, debug >>

CallClose ==
    /\ call.pc = "responded"
    /\ call' = [call EXCEPT !.pc = "idle", !.req = NoRequest, !.res = NoResponse,
                            !.fetches = << >>, !.reply = NoReply]
    /\ UNCHANGED << webhookVars, debug >>

NextCall == CallArrives \/ CallRun \/ ProviderReply \/ CallClose

SpecCall == InitCall /\ [][NextCall]_vars

(***************************************************************************)
(* The debug endpoint (webhook-debug.js)                                   *)
(***************************************************************************)

\* The seconds the clock of the process can reach
MaxClock == 3

\* new Date().toISOString() at t seconds after the epoch, t < 60
toISOString(t) ==
    "1970-01-01T00:00:" \o (IF t < 10 THEN "0" ELSE "") \o IntToStr(t) \o ".000Z"

\* The response to a POST
payloadLogged(timestamp) ==
    Respond(200, Obj(Field("received", Bool(TRUE))
                     \o Field("timestamp", timestamp)
                     \o Field("message", Str("Payload logged successfully"))))

\* The response to a GET while lastPayload is falsy
nothingReceived ==
    Respond(200, Obj(Field("message", Str("No webhook payload received yet"))
                     \o Field("hint", Str("Configure ElevenLabs to send webhooks to /api/webhook-debug temporarily"))))

\* The response to a GET otherwise
lastReceived(lastReceivedAt, lastPayload) ==
    Respond(200, Obj(Field("lastReceivedAt", lastReceivedAt)
                     \o Field("payload", lastPayload)))

\* The handler of the debug endpoint, from its first line to its response:
\* the module's variables and the response afterwards. It awaits nothing.
debugHandler(r, g) ==
    IF r.method = "OPTIONS"
    THEN [g EXCEPT !.req = r, !.res = Respond(200, Undefined)]
    ELSE IF r.method = "POST"
    THEN [g EXCEPT !.req = r,
                   !.lastPayload = r.body,
                   !.lastReceivedAt = Str(toISOString(g.now)),
                   !.res = payloadLogged(Str(toISOString(g.now)))]
    ELSE IF r.method = "GET"
    THEN IF ~truthy(g.lastPayload)
         THEN [g EXCEPT !.req = r, !.res = nothingReceived]
         ELSE [g EXCEPT !.req = r, !.res = lastReceived(g.lastReceivedAt, g.lastPayload)]
    ELSE [g EXCEPT !.req = r,
                   !.res = Respond(405, Obj(Field("error", Str("Method not allowed"))))]

\* The bodies posted to the debug endpoint: events, and what the platform
\* hands over for an absent body or for the JSON texts null, 0, false, ""
DebugBodies ==
    { Undefined, Null, Num(0), Bool(FALSE), Str(""), Str("ping"), Num(7),
      Arr(<< >>), Obj(<< >>),
      Obj(Field("type", Str("post_call_transcription"))
          \o Field("to", Str(Customer))),
      Obj(Field("transcript", Str("Thank you, goodbye"))) }

DebugRequests ==
    { [method |-> "POST", body |-> b] : b \in DebugBodies }
    \cup { [method |-> m, body |-> Undefined] : m \in {"GET", "OPTIONS", "PUT"} }

\* What the most recent POST brought, kept for the properties: posted is
\* FALSE until the first POST
recorded(r, g) ==
    IF r.method = "POST"
    THEN [posted |-> TRUE, body |-> r.body, at |-> toISOString(g.now)]
    ELSE g.last

InitDebug ==
    /\ env = Unconfigured
    /\ HandlerIdle
    /\ input = NoInput
    /\ decision = << >>
    /\ call = NoCall
    /\ debug = NoDebug

\* A request to the debug endpoint is handled
DebugRequest ==
    /\ \E r \in DebugRequests :
          debug' = [debugHandler(r, debug) EXCEPT !.last = recorded(r, debug)]
    /\ UNCHANGED << webhookVars, call >>

\* A second passes
Tick ==
    /\ debug.now < MaxClock
    /\ debug' = [debug EXCEPT !.now = @ + 1]
    /\ UNCHANGED << webhookVars, call >>

NextDebug == DebugRequest \/ Tick

SpecDebug == InitDebug /\ [][NextDebug]_vars

(***************************************************************************)
(* Properties of the classifier (SpecClassify)                             *)
(***************************************************************************)

\* What a lowercased text holds, stated on the text itself
occursAt(lower, keyword, i) ==
    /\ i + Len(keyword) - 1 <= Len(lower)
    /\ SubSeq(lower, i, i + Len(keyword) - 1) = keyword

occursIn(lower, keyword) == \E i \in 1..Len(lower) : occursAt(lower, keyword, i)

blockIn(lower) == \E i \in 1..Len(BLOCK_KEYWORDS) : occursIn(lower, BLOCK_KEYWORDS[i])

keywordOfIn(cat, lower) ==
    \E i \in 1..Len(TRIGGER_KEYWORDS[cat]) : occursIn(lower, TRIGGER_KEYWORDS[cat][i])

triggerIn(lower) == \E cat \in DOMAIN TRIGGER_KEYWORDS : keywordOfIn(cat, lower)

Classified == decision # << >>

\* The lowercased text of the transcript given to the classifier
Lowered == toLowerCase(input.transcript)

\* C3: a transcript that holds a block keyword is never answered with a
\* send: shouldSend is false and the template id is null, whatever trigger
\* keywords it also holds and whatever the direction.
C3_BlockOverrides ==
    Classified =>
        LET lower == Lowered
        IN  blockIn(lower) => (~decision[1].shouldSend /\ decision[1].smsType = NoTemplate)

C3_Witness ==
    /\ Classified
    /\ input.callType = Str("OUTBOUND")
    /\ ~decision[1].shouldSend
    /\ LET lower == Lowered IN blockIn(lower) /\ triggerIn(lower)

\* C4: on an OUTBOUND call, a transcript without block keyword that holds a
\* trigger keyword gets the template of a category it holds a keyword of,
\* never the outbound confirmation.
C4_TriggerBeatsOutbound ==
    (Classified /\ input.callType = Str("OUTBOUND")) =>
        LET lower == Lowered
        IN  (~blockIn(lower) /\ triggerIn(lower))
               => /\ decision[1].shouldSend
                  /\ decision[1].smsType # "OUTBOUND_CONFIRMATION_SMS"
                  /\ \E cat \in DOMAIN TRIGGER_KEYWORDS :
                        /\ decision[1].smsType = CategoryTemplate[cat]
                        /\ keywordOfIn(cat, lower)

C4_Witness ==
    /\ Classified
    /\ input.callType = Str("OUTBOUND")
    /\ decision[1].smsType = "REWARDS_TNC_SMS"
    /\ LET lower == Lowered IN ~blockIn(lower) /\ keywordOfIn("rewards_tnc", lower)

\* The order of the categories and their templates as the claim gives them
ClaimedOrder ==
    << "rewards_tnc", "transaction_reference", "redemption", "complaint", "summary" >>

ClaimedTemplate ==
    [ rewards_tnc |-> "REWARDS_TNC_SMS",
      transaction_reference |-> "TRANSACTION_REFERENCE_SMS",
      redemption |-> "REDEMPTION_SMS",
      complaint |-> "COMPLAINT_SMS",
      summary |-> "CALL_SUMMARY_SMS" ]

\* The end of the reason: the quoted keyword
endsWithQuoted(reason, keyword) ==
    /\ Len(reason) >= Len(keyword) + 2
    /\ SubSeq(reason, Len(reason) - Len(keyword) - 1, Len(reason)) = Quoted(keyword)

\* The categories of the claimed order, and the keywords of a list, that
\* the text holds
heldCategories(lower) ==
    { c \in 1..Len(ClaimedOrder) : keywordOfIn(ClaimedOrder[c], lower) }

heldKeywords(list, lower) == { k \in 1..Len(list) : occursIn(lower, list[k]) }

least(S) == CHOOSE m \in S : \A n \in S : m <= n

\* The decision is the template of category c with the quoted keyword k of
\* its list
decidesFor(c, k) ==
    /\ decision[1].shouldSend
    /\ decision[1].smsType = ClaimedTemplate[ClaimedOrder[c]]
    /\ endsWithQuoted(decision[1].reason, TRIGGER_KEYWORDS[ClaimedOrder[c]][k])

firstOf(c, held) == decidesFor(c, least(held))

firstHeld(cats, lower) ==
    cats # {} => firstOf(least(cats), heldKeywords(TRIGGER_KEYWORDS[ClaimedOrder[least(cats)]], lower))

\* C5: without block keyword, the template is that of the first category,
\* in the order rewards_tnc, transaction_reference, redemption, complaint,
\* summary, that the transcript holds a keyword of, and the reason names
\* the first keyword of that category's list that the transcript holds.
C5_CategoryThenKeywordOrder ==
    Classified =>
        LET lower == Lowered
        IN  ~blockIn(lower) => firstHeld(heldCategories(lower), lower)

\* Keywords of two categories, the later category's first in the text
C5_Witness ==
    /\ Classified
    /\ input.transcript = "complaint status. send tnc"
    /\ decision[1].smsType = "REWARDS_TNC_SMS"
    /\ endsWithQuoted(decision[1].reason, "send tnc")

\* C6: a transcript with neither block nor trigger keyword, the empty one
\* included, gets the outbound confirmation exactly when the direction is
\* OUTBOUND, and otherwise no send, a null template and the reason
\* 'No trigger keywords matched'.
C6_OutboundFallbackOnly ==
    Classified =>
        LET lower == Lowered
        IN  (~blockIn(lower) /\ ~triggerIn(lower))
               => IF input.callType = Str("OUTBOUND")
                  THEN /\ decision[1].shouldSend
                       /\ decision[1].smsType = "OUTBOUND_CONFIRMATION_SMS"
                  ELSE /\ ~decision[1].shouldSend
                       /\ decision[1].smsType = NoTemplate
                       /\ decision[1].reason = "No trigger keywords matched"

C6_Witness ==
    /\ Classified
    /\ input.transcript = ""
    /\ input.callType = Str("outbound")
    /\ ~decision[1].shouldSend

(***************************************************************************)
(* Properties of the handler (Spec)                                        *)
(***************************************************************************)

Answered(d) == pc[d] = "responded"

\* const body = req.body || {}
bodyOf(r) == IF truthy(r.body) THEN r.body ELSE Obj(<< >>)

startsWith(s, prefix) ==
    Len(s) >= Len(prefix) /\ SubSeq(s, 1, Len(prefix)) = prefix

\* C1 as claimed: whatever the method and the body, the status of the
\* response is 200.
C1_AlwaysStatus200 ==
    \A d \in Deliveries : Answered(d) => res[d].status = 200

\* C1, amended: a POST, whatever its body, and an OPTIONS preflight are
\* answered 200; a request of any other method is answered 405.
C1_PostAlwaysStatus200 ==
    \A d \in Deliveries :
        Answered(d) =>
            IF req[d].method \in {"POST", "OPTIONS"}
            THEN res[d].status = 200
            ELSE res[d].status = 405

C1_Witness ==
    /\ Answered(1)
    /\ req[1].method = "POST"
    /\ req[1].body = Str("call ended")
    /\ res[1].status = 200

\* C2: a fault thrown in the pipeline of a POST is caught: the handler
\* answers 200 with received: true, sms_sent: false and the fault's message
\* as error, and nothing is sent.
C2_FaultCaught ==
    \A d \in Deliveries :
        locals[d].thrown # "" =>
            /\ Answered(d)
            /\ res[d] = [ status |-> 200,
                          body |-> [ received |-> TRUE, sms_sent |-> FALSE,
                                     error |-> locals[d].thrown ] ]
            /\ sends[d] = << >>

C2_Witness ==
    /\ Answered(1)
    /\ Get(bodyOf(req[1]), "transcript") = Arr(<< Str("Hello"), Null >>)
    /\ locals[1].thrown = "Cannot read properties of null (reading 'text')"
    /\ res[1].body.error = "Cannot read properties of null (reading 'text')"

\* Neither scan finds a phone number in the payload
noPhoneIn(body) == selectedPhone(body) = "" /\ ~truthy(findPhone(body, 0))

answersNoPhone(d) ==
    /\ res[d].status = 200
    /\ {"received", "sms_sent", "reason"} \subseteq DOMAIN res[d].body
    /\ res[d].body.received
    /\ ~res[d].body.sms_sent
    /\ startsWith(res[d].body.reason, "No phone number found")
    /\ ~locals[d].classified
    /\ sends[d] = << >>

\* C8: a POST whose payload holds no phone number for either scan is
\* answered 200 with received: true, sms_sent: false and a reason that
\* starts with 'No phone number found', with neither the classifier nor the
\* dispatcher called.
C8_NoPhoneShortCircuit ==
    \A d \in Deliveries :
        (Answered(d) /\ req[d].method = "POST" /\ noPhoneIn(bodyOf(req[d])))
            => answersNoPhone(d)

\* The digits of the agent number and of the configured sender
isGatewayNumber(phone) ==
    \/ normalizeDigits(phone) = normalizeDigits(elevenLabsNumber)
    \/ normalizeDigits(phone) = normalizeDigits(env.TWILIO_FROM_NUMBER)

\* C9: the customer phone that the extraction (primary scan, then fallback
\* scan) leaves for the rest of the pipeline is empty or differs in its
\* digits from the agent number and from TWILIO_FROM_NUMBER.
C9_ExtractedPhoneNotGateway ==
    \A d \in Deliveries :
        locals[d].extracted =>
            (locals[d].phone_number = "" \/ ~isGatewayNumber(locals[d].phone_number))

\* The destination is the sender's own number or holds the agent's digits
ownNumber(phone) ==
    \/ normalizeDigits(phone) = normalizeDigits(env.TWILIO_FROM_NUMBER)
    \/ occursIn(normalizeDigits(phone), "15856678990")

refusedAsAgentPhone(d) ==
    /\ Answered(d)
    /\ res[d].status = 200
    /\ {"sms_sent", "reason"} \subseteq DOMAIN res[d].body
    /\ ~res[d].body.sms_sent
    /\ res[d].body.reason = "Customer phone not found in webhook - matches agent phone"
    /\ sends[d] = << >>

\* C10: no send goes to a destination that normalizes to the digits of the
\* configured sender or that holds the agent number's digits; a delivery
\* that would send to one is answered 200 with sms_sent: false and the
\* reason 'Customer phone not found in webhook - matches agent phone'.
C10_NeverSendsToOwnNumber ==
    \A d \in Deliveries :
        /\ \A i \in 1..Len(sends[d]) : ~ownNumber(sends[d][i].to)
        /\ (/\ locals[d].classified
            /\ locals[d].classification.shouldSend
            /\ ownNumber(locals[d].phone_number))
              => refusedAsAgentPhone(d)

C10_Witness ==
    /\ refusedAsAgentPhone(1)
    /\ locals[1].classification.shouldSend
    /\ locals[1].phone_number = TwilioNumber
    /\ env.TWILIO_FROM_NUMBER = TwilioNumber

has(d, fields) == fields \subseteq DOMAIN res[d].body

\* C11: a delivery issues at most one send to the gateway, and the answer
\* to a send, failed or not, is followed by the response and by no further
\* send: a failed send is reported with sms_sent: false and its error.
C11_SingleSendNoRetry ==
    [][\A d \in Deliveries :
          /\ Len(sends'[d]) <= 1
          /\ (pc[d] = "awaitSend" /\ pc'[d] = "responded") =>
                /\ sends'[d] = sends[d]
                /\ ~locals'[d].smsResult.success =>
                      /\ ~res'[d].body.sms_sent
                      /\ res'[d].body.sms_error = locals'[d].smsResult.error]_vars

C11_Witness ==
    /\ Answered(1)
    /\ Len(sends[1]) = 1
    /\ has(1, {"sms_sent", "sms_error"})
    /\ ~res[1].body.sms_sent
    /\ res[1].body.sms_error = "The 'To' number is not a valid phone number."

\* C12: a template id the classifier returns with shouldSend = true is a
\* key of SMS_TEMPLATES, and the body of every message sent is the
\* registry's text for the classifier's template id, nothing added.
C12_RegistryTextOnly ==
    \A d \in Deliveries :
        /\ (locals[d].classified /\ locals[d].classification.shouldSend)
              => locals[d].classification.smsType \in TemplateIds
        /\ \A i \in 1..Len(sends[d]) :
              sends[d][i].body = SMS_TEMPLATES[locals[d].classification.smsType]

C12_Witness ==
    /\ Len(sends[1]) = 1
    /\ locals[1].classification.smsType = "COMPLAINT_SMS"
    /\ sends[1][1].body = SMS_TEMPLATES["COMPLAINT_SMS"]

\* One of the three gateway settings is not configured
credentialMissing ==
    \/ env.TWILIO_ACCOUNT_SID = ""
    \/ env.TWILIO_AUTH_TOKEN = ""
    \/ env.TWILIO_FROM_NUMBER = ""

\* C13: with a gateway credential not configured no gateway call is made,
\* and a delivery that reaches the dispatch is answered 200 with
\* sms_sent: false and sms_error 'Missing Twilio credentials'.
C13_MissingCredentialsNoCall ==
    \A d \in Deliveries :
        credentialMissing =>
            /\ sends[d] = << >>
            /\ (/\ locals[d].classified
                /\ locals[d].classification.shouldSend
                /\ ~ownNumber(locals[d].phone_number))
                  => /\ Answered(d)
                     /\ res[d].status = 200
                     /\ has(d, {"sms_sent", "sms_error"})
                     /\ ~res[d].body.sms_sent
                     /\ res[d].body.sms_error = "Missing Twilio credentials"

C13_Witness ==
    /\ env.TWILIO_AUTH_TOKEN = ""
    /\ Answered(1)
    /\ locals[1].classification.shouldSend
    /\ has(1, {"sms_error"})
    /\ res[1].body.sms_error = "Missing Twilio credentials"
    /\ sends[1] = << >>

\* A send was made and the gateway accepted it
sendSucceeded(d) == Len(sends[d]) >= 1 /\ locals[d].smsResult.success

\* C14: in every response to a POST received is true; sms_sent is true
\* exactly when a send was made and succeeded, and then the body carries
\* the classifier's template id and the provider's message id; after a
\* failed send it carries sms_sent: false and the provider's error.
C14_ResponseShape ==
    \A d \in Deliveries :
        (Answered(d) /\ req[d].method = "POST") =>
            /\ has(d, {"received", "sms_sent"})
            /\ res[d].body.received
            /\ res[d].body.sms_sent <=> sendSucceeded(d)
            /\ res[d].body.sms_sent =>
                  /\ has(d, {"sms_type", "message_id"})
                  /\ res[d].body.sms_type = locals[d].classification.smsType
                  /\ res[d].body.message_id = locals[d].smsResult.messageId
            /\ (Len(sends[d]) >= 1 /\ ~locals[d].smsResult.success) =>
                  /\ has(d, {"sms_error"})
                  /\ res[d].body.sms_error = locals[d].smsResult.error

C14_Witness ==
    /\ Answered(1)
    /\ has(1, {"sms_sent", "sms_type", "message_id"})
    /\ res[1].body.sms_sent
    /\ res[1].body.sms_type = "REWARDS_TNC_SMS"
    /\ res[1].body.message_id = "SM0001"

\* C19: a send is made only with a non-empty extracted phone and a
\* classification with shouldSend = true, to that phone; a classification
\* with shouldSend = false is answered with sms_sent: false and the
\* classifier's reason, without a gateway call.
C19_ClassificationGate ==
    \A d \in Deliveries :
        /\ sends[d] # << >> =>
              /\ locals[d].extracted
              /\ locals[d].phone_number # ""
              /\ locals[d].classified
              /\ locals[d].classification.shouldSend
              /\ sends[d][1].to = locals[d].phone_number
        /\ (locals[d].classified /\ ~locals[d].classification.shouldSend) =>
              /\ Answered(d)
              /\ res[d].body = [ received |-> TRUE, sms_sent |-> FALSE,
                                 reason |-> locals[d].classification.reason ]
              /\ sends[d] = << >>

C19_Witness ==
    /\ Answered(1)
    /\ locals[1].classified
    /\ locals[1].phone_number = Customer
    /\ res[1].body = [ received |-> TRUE, sms_sent |-> FALSE,
                       reason |-> "No trigger keywords matched" ]

\* A string that the primary scan takes for a phone number and that is not
\* the agent's or the sender's
customerNumber(x) ==
    /\ typeof(x) = "string"
    /\ isPhoneLike(x.v)
    /\ ~isGatewayNumber(x.v)

\* C20: with a customer number in 'to' and another in 'from', the phone
\* extracted is the 'to' number, whichever key comes first.
C20_ToPreferredOverFrom ==
    \A d \in Deliveries :
        LET to == Get(bodyOf(req[d]), "to")
            from == Get(bodyOf(req[d]), "from")
        IN  (locals[d].extracted /\ customerNumber(to) /\ customerNumber(from))
                => locals[d].phone_number = removeChars(to.v, WhiteSpace \cup {"-"})

\* C15: every POST received is eventually answered, also when the gateway
\* never answers the send.
C15_AlwaysAnswered ==
    \A d \in Deliveries : (pc[d] = "received") ~> (pc[d] = "responded")

\* Delivery d stands where the handling of its request alone, under the
\* same settings, can stand: alone is that handling up to its response or
\* its await
asAlone(d, alone) ==
    /\ sends[d] = alone.sends
    /\ pc[d] = "awaitSend" => alone.pc = "awaitSend"
    /\ pc[d] = "responded" =>
          IF alone.pc = "responded"
          THEN res[d] = alone.res
          ELSE \E reply \in GatewayReplies :
                  res[d] = handlerResume(alone.locals, sendSMSResult(reply))

\* C16: with deliveries handled at the same time, in any interleaving, the
\* send and the response of each delivery are those of its own request handled
\* alone under the same settings, and a step of one delivery leaves the
\* request, variables, sends and response of every other delivery as they were.
C16_DeliveriesIndependent ==
    /\ [](\A d \in Deliveries :
              pc[d] \in {"awaitSend", "responded"} =>
                  asAlone(d, handlerRun(req[d], env)))
    /\ [][\A d \in Deliveries : \A e \in Deliveries \ {d} :
              pc'[e] # pc[e] =>
                  /\ pc'[d] = pc[d]
                  /\ req'[d] = req[d]
                  /\ locals'[d] = locals[d]
                  /\ sends'[d] = sends[d]
                  /\ res'[d] = res[d]]_vars

C16_Witness ==
    /\ pc[1] = "responded"
    /\ pc[2] = "awaitSend"
    /\ Len(sends[1]) = 1
    /\ Len(sends[2]) = 1
    /\ sends[1][1].to # sends[2][1].to
    /\ sends[1][1].body # sends[2][1].body
    /\ has(1, {"sms_type"})
    /\ res[1].body.sms_type = locals[1].classification.smsType

\* No transcript probe of the payload yields text: each one extracts to an
\* empty (falsy) value without a fault
noTranscript(body) ==
    LET probes == transcriptProbes(body)
    IN  \A i \in 1..Len(probes) :
            /\ ~isThrown(extractTranscriptText(probes[i]))
            /\ ~truthy(extractTranscriptText(probes[i]))

\* C21: when no transcript probe yields text, the transcript given to the
\* classifier is the serialization of the whole payload if that is longer
\* than 100 characters, and the empty text otherwise.
C21_FallbackAboveThreshold ==
    \A d \in Deliveries :
        (locals[d].classified /\ noTranscript(bodyOf(req[d]))) =>
            locals[d].transcript =
                IF Len(stringify(bodyOf(req[d]))) > 100
                THEN stringify(bodyOf(req[d]))
                ELSE ""

C21_Witness ==
    \E d \in Deliveries :
        /\ locals[d].classified
        /\ noTranscript(bodyOf(req[d]))
        /\ Len(stringify(bodyOf(req[d]))) > 100
        /\ locals[d].transcript = stringify(bodyOf(req[d]))
        /\ locals[d].classification.shouldSend

\* C21 as stated: when no transcript probe yields text, the transcript
\* given to the classifier is the serialization of the whole payload,
\* whatever its size.
C21_FallbackAnySize ==
    \A d \in Deliveries :
        (locals[d].classified /\ noTranscript(bodyOf(req[d]))) =>
            locals[d].transcript = stringify(bodyOf(req[d]))

\* An item of a transcript sequence with a role and a message and neither
\* text nor content
roleAndMessageOnly(item) ==
    /\ item.t = "object"
    /\ truthy(Get(item, "role"))
    /\ truthy(Get(item, "message"))
    /\ Get(item, "text") = Undefined
    /\ Get(item, "content") = Undefined

\* C22: a transcript sequence of items with a role and a message and no
\* text or content is flattened to the texts 'role: message' joined by
\* single spaces.
C22_RoleMessageText ==
    \A d \in Deliveries :
        LET turns == Get(bodyOf(req[d]), "transcript")
        IN  (/\ locals[d].extracted
             /\ turns.t = "array"
             /\ Len(turns.v) > 0
             /\ \A i \in 1..Len(turns.v) : roleAndMessageOnly(turns.v[i]))
            => locals[d].transcript =
                  joinStrings([i \in 1..Len(turns.v) |->
                                  JsString(Get(turns.v[i], "role")) \o ": "
                                      \o JsString(Get(turns.v[i], "message"))],
                              " ")

\* C23: the extraction of direction, phone and transcript throws for no
\* payload: no POST is answered from the catch clause with a fault of it.
C23_ExtractionNeverThrows ==
    \A d \in Deliveries :
        (Answered(d) /\ req[d].method = "POST") =>
            /\ locals[d].thrown = ""
            /\ ~has(d, {"error"})

Directions == { Str("OUTBOUND"), Str("INBOUND"), Str("UNKNOWN") }

\* C24: the direction passed to classifyTranscript is one of OUTBOUND,
\* INBOUND and UNKNOWN.
C24_DirectionInSet ==
    \A d \in Deliveries :
        locals[d].classified =>
            Or(locals[d].call_type, Str("INBOUND")) \in Directions

\* The depth after which findPhone returns without looking
DepthBound == 3

\* The value under k levels of 'details' of x
RECURSIVE descend(_, _)
descend(x, k) == IF k = 0 THEN x ELSE descend(Get(x, "details"), k - 1)

\* C25: the phone walks stop at the depth bound: a number that lies deeper
\* in the payload than the bound is not extracted.
C25_WalksStopAtDepthBound ==
    \A d \in Deliveries : \A k \in (DepthBound + 1)..MaxDepth :
        (/\ locals[d].extracted
         /\ Get(descend(bodyOf(req[d]), k), "to") = Str(Customer))
        => locals[d].phone_number # Customer


(***************************************************************************)
(* Properties of call initiation (SpecCall)                                *)
(***************************************************************************)

RequiredFields == {"phoneNumber", "fullName", "preferredLanguage", "callReason"}

\* The rule of a required field: a non-empty string, the phone number
\* starting with '+'
violates(body, field) ==
    LET x == Get(body, field)
    IN  \/ x.t # "string"
        \/ x.v = ""
        \/ field = "phoneNumber" /\ SubSeq(x.v, 1, 1) # "+"

\* How the entries of each endpoint name a field
fieldLabel(server, field) ==
    IF server = "express" THEN field
    ELSE CASE field = "phoneNumber"       -> "Phone number"
           [] field = "fullName"          -> "Full name"
           [] field = "preferredLanguage" -> "Preferred language"
           [] field = "callReason"        -> "Call reason"

entriesFor(details, label) == { i \in 1..Len(details) : occursIn(details[i], label) }

\* C17: a POST whose body violates a required-field rule is answered 400
\* 'Validation failed' with exactly one entry of details for each violated
\* field and none for the others, and nothing is sent to the provider.
C17_ValidationCollectsAll ==
    (/\ call.pc = "responded"
     /\ call.req.method = "POST"
     /\ \E f \in RequiredFields : violates(call.req.body, f))
        => /\ call.res.status = 400
           /\ call.res.body.error = "Validation failed"
           /\ \A f \in RequiredFields :
                 Cardinality(entriesFor(call.res.body.details,
                                        fieldLabel(call.server, f)))
                    = IF violates(call.req.body, f) THEN 1 ELSE 0
           /\ call.fetches = << >>

\* The provider answered the fetch with a status that is not a success
providerRefused == call.reply.settled /\ call.reply.status \notin (200..299) \cup {0}

\* The message of the provider's error: detail.message, else message
providerMessage(data) ==
    IF Get(data, "detail").t = "object" /\ Get(Get(data, "detail"), "message").t = "string"
    THEN Get(Get(data, "detail"), "message")
    ELSE Get(data, "message")

notInitiated ==
    /\ call.res.body.success = FALSE
    /\ call.res.body.message # Str("Outbound call initiated successfully")
    /\ "data" \notin DOMAIN call.res.body

gotten == debug.req.method = "GET" /\ debug.res.status # 0

isNothingReceived(r) ==
    Get(r.body, "message") = Str("No webhook payload received yet")

\* C26: a GET returns the body and the timestamp of the most recent POST,
\* and the 'No webhook payload received yet' message exactly when there was
\* no POST; lastPayload and lastReceivedAt are both unset or both set by
\* the same POST.
C26_GetShowsLastPost ==
    /\ gotten =>
          /\ isNothingReceived(debug.res) <=> ~debug.last.posted
          /\ debug.last.posted =>
                debug.res = lastReceived(Str(debug.last.at), debug.last.body)
    /\ \/ debug.lastPayload = Null /\ debug.lastReceivedAt = Null
       \/ /\ debug.last.posted
          /\ debug.lastPayload = debug.last.body
          /\ debug.lastReceivedAt = Str(debug.last.at)
          /\ debug.lastPayload # Null

=============================================================================
